---- MODULE Spec2Model ----
(***************************************************************************)
(* The scheduling pipeline of bedwards/school-scheduling.                  *)
(*                                                                         *)
(* Two engines share the five phases (sections, time slots, rooms,         *)
(* students, rebalancing):                                                 *)
(*   "web" : web/src/db/schedule-loader.ts, generateSchedule (greedy only, *)
(*           one slot per section replicated over the week);               *)
(*   "cli" : src/scheduler/index.ts, generateSchedule (ILP through         *)
(*           solveScheduleILP with a greedy fallback, one slot per day).   *)
(* One behaviour of the model is one call of generateSchedule; SpecTwice   *)
(* follows it by a second call on the same input.                          *)
(***************************************************************************)
EXTENDS Integers, Sequences, FiniteSets, TLC

\* ---------------------------------------------------------------- bounds
MaxSections == 2
MaxStudentsPerSection == 2
MaxPeriodsPerDay == 2
MaxDaysPerWeek == 2
MaxTeacherSections == 2
MaxCourseSections == 3
MaxStudents == 4
MaxFewPasses == 2

\* ----------------------------------------------------- program constants
DefaultMaxOptimizationIterations == 500
GreedyFallbackIterations == 500
SameCoursePenalty == 1000
SameGradePenalty == 500
RequiredWeight == 1000
ElectiveWeightBase == 10
ReportEvery == 10
EmptySectionCost == 5
MissingRoomCost == 10
MissingTeacherCost == 10
MaxScore == 100

\* `undefined` for an optional teacherId / roomId
Absent == "undefined"

VARIABLES
    engine,             \* "web" | "cli"
    useILP,             \* options.useILP (cli engine)
    maxIterations,      \* options.maxOptimizationIterations
    config,             \* input.config
    courses,            \* input.courses
    teachers,           \* input.teachers
    rooms,              \* input.rooms
    students,           \* input.students
    pc,                 \* position inside generateSchedule
    sections,           \* the Section[] built by createSections
    unassigned,         \* the UnassignedStudent[] list
    k,                  \* cursor of the per-section loops (phases 2 and 3)
    slotUsage,          \* assignTimeSlots: slot -> sections placed there
    gradeSlotUsage,     \* assignTimeSlots: grade -> slot -> count
    courseUsedSlots,    \* assignTimeSlots: slots used by the current course
    teacherSchedules,   \* assignTimeSlots: teacher -> occupied period keys
    roomSchedules,      \* assignRooms: room -> occupied period keys
    studentSchedules,   \* student -> occupied period keys
    si,                 \* greedy: index of the current student
    ci,                 \* greedy: index of the current course of the student
    ilpStatus,          \* solution.Status of the solver ("" before the call)
    assignments,        \* ILPResult.assignments: student -> section ids
    algorithmUsed,      \* metadata.algorithm
    sectionsByCourse,   \* optimizeSections: course -> its sections (indices)
    iter,               \* optimizeSections: pass counter
    improved,           \* optimizeSections: flag of the current pass
    cpos,               \* optimizeSections: position in the course iteration
    events,             \* the reports delivered to onProgress, in order
    calls,              \* the phases generateSchedule has entered, in order
    metadata,           \* schedule.metadata of the returned schedule
    callNo,             \* 1 for the first call on the input, 2 for the repeated call
    first               \* the schedule returned by the first call

inputVars == <<engine, useILP, maxIterations, config, courses, teachers, rooms, students>>
timeVars == <<slotUsage, gradeSlotUsage, courseUsedSlots, teacherSchedules>>
greedyVars == <<si, ci>>
ilpVars == <<ilpStatus, assignments>>
optVars == <<sectionsByCourse, iter, improved, cpos>>
callVars == <<callNo, first>>
vars == <<inputVars, pc, sections, unassigned, k, timeVars, roomSchedules,
          studentSchedules, greedyVars, ilpVars, algorithmUsed, optVars,
          events, calls, metadata, callVars>>

\* ---------------------------------------------------------------- helpers
Range(s) == {s[i] : i \in 1..Len(s)}

\* Array.prototype.indexOf, 0-based, -1 when absent
IndexOf(s, x) ==
    IF x \in Range(s)
    THEN (CHOOSE i \in 1..Len(s) : s[i] = x /\ \A j \in 1..(i-1) : s[j] # x) - 1
    ELSE -1

\* Template string `${day}-${slot}`: for the non-negative integers the code
\* formats, two keys are equal exactly when day and slot are both equal.
PeriodKey(day, slot) == <<day, slot>>

KeysOf(periods) == {PeriodKey(p.day, p.slot) : p \in periods}

\* insertion that puts e before the elements of equal key
RECURSIVE InsertBeforeEqual(_, _, _)
InsertBeforeEqual(sorted, e, key) ==
    IF sorted = <<>> THEN <<e>>
    ELSE IF key[Head(sorted)] < key[e]
         THEN <<Head(sorted)>> \o InsertBeforeEqual(Tail(sorted), e, key)
         ELSE <<e>> \o sorted

\* Stable insertion used by every Array.prototype.sort((a, b) => key(a) - key(b)):
\* e goes after every element whose key is <= key[e].
RECURSIVE InsertStable(_, _, _)
InsertStable(sorted, e, key) ==
    IF sorted = <<>> THEN <<e>>
    ELSE IF key[Head(sorted)] <= key[e]
         THEN <<Head(sorted)>> \o InsertStable(Tail(sorted), e, key)
         ELSE <<e>> \o sorted

\* a sort whose order among equal keys changes from one call to the next
RECURSIVE SortStable_TieByCall(_, _)
SortStable_TieByCall(s, key) ==
    IF s = <<>> THEN <<>>
    ELSE LET rest == SortStable_TieByCall(SubSeq(s, 1, Len(s) - 1), key)
         IN IF callNo = 1 THEN InsertStable(rest, s[Len(s)], key)
            ELSE InsertBeforeEqual(rest, s[Len(s)], key)

RECURSIVE SortStable(_, _)
SortStable(s, key) ==
    IF s = <<>> THEN <<>>
    ELSE InsertStable(SortStable(SubSeq(s, 1, Len(s) - 1), key), s[Len(s)], key)

\* courseMap.get(courseId): the course record, found by id
HasCourse(courseId) == \E i \in 1..Len(courses) : courses[i].id = courseId

CourseOf(courseId) == courses[CHOOSE i \in 1..Len(courses) : courses[i].id = courseId]

TeacherOf(teacherId) == teachers[CHOOSE i \in 1..Len(teachers) : teachers[i].id = teacherId]

RoomOf(roomId) == rooms[CHOOSE i \in 1..Len(rooms) : rooms[i].id = roomId]

StudentOf(studentId) == students[CHOOSE i \in 1..Len(students) : students[i].id = studentId]

\* the grade test left out: every grade is admitted
GradeExcluded_Never(course, grade) == FALSE

\* course.gradeRestrictions && !course.gradeRestrictions.includes(student.grade)
GradeExcluded(course, grade) == course.hasGradeRestrictions /\ grade \notin course.gradeRestrictions

\* -------------------------------------------------- phase 1: createSections
\* the pool without the subject test
QualifiedTeachers_AnySubject(course, count) ==
    SelectSeq(teachers, LAMBDA t : count[t.id] < t.maxSections)

\* teachers.filter(t => t.subjects.includes(course.id) && count(t) < t.maxSections)
QualifiedTeachers(course, count) ==
    SelectSeq(teachers, LAMBDA t : course.id \in t.subjects /\ count[t.id] < t.maxSections)

\* the sections pushed for one course; section i (1-based) takes pool[(i-1) % |pool|]
SectionsOfCourse(course, pool) ==
    [i \in 1..course.sections |->
        [id |-> <<course.id, i>>,
         courseId |-> course.id,
         teacherId |-> IF pool = <<>> THEN Absent ELSE pool[((i - 1) % Len(pool)) + 1].id,
         roomId |-> Absent,
         periods |-> {},
         enrolledStudents |-> <<>>,
         capacity |-> course.maxStudents]]

RECURSIVE CreateSectionsFrom(_, _, _)
CreateSectionsFrom(ix, acc, count) ==
    IF ix > Len(courses) THEN acc
    ELSE LET course == courses[ix]
             new == SectionsOfCourse(course, QualifiedTeachers(course, count))
             count2 == [t \in DOMAIN count |->
                          count[t] + Cardinality({i \in 1..Len(new) : new[i].teacherId = t})]
         IN CreateSectionsFrom(ix + 1, acc \o new, count2)

createSections ==
    CreateSectionsFrom(1, <<>>, [t \in {teachers[i].id : i \in 1..Len(teachers)} |-> 0])

\* ------------------------------------------------- phase 2: assignTimeSlots
Slots == 0..(config.periodsPerDay - 1)

Days == 0..(config.daysPerWeek - 1)

RECURSIVE SumOver(_, _)
SumOver(f, S) ==
    IF S = {} THEN 0
    ELSE LET x == CHOOSE y \in S : TRUE IN f[x] + SumOver(f, S \ {x})

\* teacherSchedules seeded with each teacher's unavailable periods
SeedTeacherSchedules == [t \in {teachers[i].id : i \in 1..Len(teachers)} |-> KeysOf(TeacherOf(t).unavailable)]

\* course?.gradeRestrictions || []
GradesOf(course) == IF course.hasGradeRestrictions THEN course.gradeRestrictions ELSE {}

\* courseUsedSlots is a fresh set for each course of sectionsByCourse
UsedSlotsAt(ix) ==
    IF ix > 1 /\ sections[ix - 1].courseId = sections[ix].courseId THEN courseUsedSlots ELSE {}

\* !teacherSchedule || no day has `${day}-${slot}` in teacherSchedule
TeacherAvailable(teacherId, slot) ==
    teacherId = Absent \/ \A day \in Days : PeriodKey(day, slot) \notin teacherSchedules[teacherId]

\* the penalty without the term of the restricted grades
Penalty_NoGradeTerm(ix, slot) ==
    slotUsage[slot] + (IF slot \in UsedSlotsAt(ix) THEN SameCoursePenalty ELSE 0)

Penalty(ix, slot) ==
    LET grades == GradesOf(CourseOf(sections[ix].courseId))
    IN slotUsage[slot]
       + (IF slot \in UsedSlotsAt(ix) THEN SameCoursePenalty ELSE 0)
       + SumOver([g \in grades |-> gradeSlotUsage[g][slot] * SameGradePenalty], grades)

\* availableSlots after the stable sort by penalty, as a sequence of slots
AvailableSlots(ix) ==
    LET feasible == SelectSeq([i \in 1..config.periodsPerDay |-> i - 1],
                              LAMBDA s : TeacherAvailable(sections[ix].teacherId, s))
    IN SortStable(feasible, [s \in Slots |-> Penalty(ix, s)])

\* availableSlots[0]?.slot ?? 0
ChosenSlot(ix) == LET av == AvailableSlots(ix) IN IF av = <<>> THEN 0 ELSE av[1]

\* the periods of a section placed at one slot on the first day only
WeekPeriods_FirstDayOnly(slot) == {[day |-> 0, slot |-> slot]}

\* for (day = 0; day < daysPerWeek; day++) section.periods.push({ day, slot: chosenSlot })
WeekPeriods(slot) == {[day |-> d, slot |-> slot] : d \in Days}

\* src/scheduler/index.ts: the slot tried first on every day is sectionIdx,
\* then the rotation (sectionIdx + attempt) % periodsPerDay
RotationSlot(sectionIdx, attempt) == (sectionIdx + attempt) % config.periodsPerDay

\* the periods pushed for one section by the per-day variant
CliPeriods(ix) ==
    LET sectionIdx == sections[ix].id[2] - 1
        tid == sections[ix].teacherId
        Free(day, slot) == tid = Absent \/ PeriodKey(day, slot) \notin teacherSchedules[tid]
        Tried(day) == {a \in 0..(config.periodsPerDay - 1) : Free(day, RotationSlot(sectionIdx, a))}
    IN {[day |-> d, slot |-> RotationSlot(sectionIdx, CHOOSE a \in Tried(d) : \A b \in Tried(d) : a <= b)] :
          d \in {dd \in Days : Tried(dd) # {}}}

\* ----------------------------------------------------- phase 3: assignRooms
SeedRoomSchedules == [r \in {rooms[i].id : i \in 1..Len(rooms)} |-> KeysOf(RoomOf(r).unavailable)]

\* the candidate list without the feature test
SuitableRooms_CapacityOnly(section) ==
    LET ok == SelectSeq(rooms, LAMBDA r : r.capacity >= section.capacity)
    IN SortStable([i \in 1..Len(ok) |-> ok[i].id], [r \in {rooms[i].id : i \in 1..Len(rooms)} |-> RoomOf(r).capacity])

\* the candidate list in input order, without the sort by capacity
SuitableRooms_InputOrder(section) ==
    LET req == CourseOf(section.courseId).requiredFeatures
        ok == SelectSeq(rooms, LAMBDA r : r.capacity >= section.capacity /\ req \subseteq r.features)
    IN [i \in 1..Len(ok) |-> ok[i].id]

\* rooms.filter(capacity and features), then sort by ascending capacity
SuitableRooms(section) ==
    LET req == CourseOf(section.courseId).requiredFeatures
        ok == SelectSeq(rooms, LAMBDA r : r.capacity >= section.capacity /\ req \subseteq r.features)
    IN SortStable([i \in 1..Len(ok) |-> ok[i].id], [r \in {rooms[i].id : i \in 1..Len(rooms)} |-> RoomOf(r).capacity])

\* the availability test against the room's closures only
CanUse_ClosuresOnly(roomId, section) ==
    \A p \in section.periods : PeriodKey(p.day, p.slot) \notin KeysOf(RoomOf(roomId).unavailable)

\* section.periods.every(p => !schedule.has(key(p)))
CanUse(roomId, section) == \A p \in section.periods : PeriodKey(p.day, p.slot) \notin roomSchedules[roomId]

\* the first suitable room that can be used, or Absent
ChosenRoom(section) ==
    LET cand == SelectSeq(SuitableRooms(section), LAMBDA r : CanUse(r, section))
    IN IF cand = <<>> THEN Absent ELSE cand[1]

\* -------------------------------------- phase 4 (greedy): runGreedyAssignment
StudentIds == {students[i].id : i \in 1..Len(students)}

EmptySchedules == [s \in StudentIds |-> {}]

\* sections.filter(s => s.courseId === courseId), as indices into `secs`
CourseSectionIndices(secs, courseId) ==
    SelectSeq([i \in 1..Len(secs) |-> i], LAMBDA i : secs[i].courseId = courseId)

\* a section the walk of assignStudentToSection does not skip
Accepts(section, schedule) ==
    /\ ~(Len(section.enrolledStudents) >= section.capacity)
    /\ ~(\E p \in section.periods : PeriodKey(p.day, p.slot) \in schedule)

\* index of the section assignStudentToSection enrols into, 0 when it returns false
TargetSection(studentId, courseId) ==
    LET sorted == SortStable(CourseSectionIndices(sections, courseId),
                             [i \in 1..Len(sections) |-> Len(sections[i].enrolledStudents)])
        cand == SelectSeq(sorted, LAMBDA i : Accepts(sections[i], studentSchedules[studentId]))
    IN IF cand = <<>> THEN 0 ELSE cand[1]

\* the enrolment that also takes one seat off the section's capacity
Enrol_TakesSeat(secs, ix, studentId) ==
    [secs EXCEPT ![ix].enrolledStudents = Append(@, studentId), ![ix].capacity = @ - 1]

\* section.enrolledStudents.push(studentId)
Enrol(secs, ix, studentId) ==
    [secs EXCEPT ![ix].enrolledStudents = Append(@, studentId)]

\* the (student, course) position that follows (s, c) in a pass over `list`,
\* <<Len(students) + 1, 1>> when the pass is over
RECURSIVE FirstPosFrom(_, _)
FirstPosFrom(s, list) ==
    IF s > Len(students) THEN <<s, 1>>
    ELSE IF Len(list[s]) > 0 THEN <<s, 1>>
    ELSE FirstPosFrom(s + 1, list)

NextPos(s, c, list) == IF c < Len(list[s]) THEN <<s, c + 1>> ELSE FirstPosFrom(s + 1, list)

RequiredLists == [s \in 1..Len(students) |-> students[s].requiredCourses]

ElectiveLists == [s \in 1..Len(students) |-> students[s].electivePreferences]

\* buildStudentSchedules: every period key of every section a student is enrolled in
buildStudentSchedules ==
    [s \in StudentIds |->
        UNION {KeysOf(sections[i].periods) :
                 i \in {j \in 1..Len(sections) : s \in Range(sections[j].enrolledStudents)}}]

\* ------------------------------------------------ phase 5: optimizeSections
\* sectionsByCourse: one list of section indices per course, in the order in
\* which the courses first appear in `sections`
RECURSIVE GroupByCourse(_, _)
GroupByCourse(ix, acc) ==
    IF ix > Len(sections) THEN acc
    ELSE LET cid == sections[ix].courseId
             pos == {j \in 1..Len(acc) : sections[acc[j][1]].courseId = cid}
         IN IF pos = {}
            THEN GroupByCourse(ix + 1, Append(acc, <<ix>>))
            ELSE LET j == CHOOSE x \in pos : TRUE
                 IN GroupByCourse(ix + 1, [acc EXCEPT ![j] = Append(@, ix)])

\* the walk cut short after the first student of largest.enrolledStudents
TryMove_FirstOnly(j, sched, largest, smallest) ==
    IF j > Len(sections[largest].enrolledStudents)
    THEN [moved |-> FALSE, student |-> Absent, sched |-> sched]
    ELSE LET s == sections[largest].enrolledStudents[j]
             tentative == sched[s] \ KeysOf(sections[largest].periods)
             hasConflict == \E p \in sections[smallest].periods : PeriodKey(p.day, p.slot) \in tentative
         IN IF ~hasConflict /\ Len(sections[smallest].enrolledStudents) < sections[smallest].capacity
            THEN [moved |-> TRUE, student |-> s,
                  sched |-> [sched EXCEPT ![s] = tentative \cup KeysOf(sections[smallest].periods)]]
            ELSE [moved |-> FALSE, student |-> Absent, sched |-> sched]

\* the walk over largest.enrolledStudents: the first student that can move
\* is moved; every student tried before has largest's periods deleted and
\* added back
RECURSIVE TryMove(_, _, _, _)
TryMove(j, sched, largest, smallest) ==
    IF j > Len(sections[largest].enrolledStudents)
    THEN [moved |-> FALSE, student |-> Absent, sched |-> sched]
    ELSE LET s == sections[largest].enrolledStudents[j]
             tentative == sched[s] \ KeysOf(sections[largest].periods)
             hasConflict == \E p \in sections[smallest].periods : PeriodKey(p.day, p.slot) \in tentative
         IN IF ~hasConflict /\ Len(sections[smallest].enrolledStudents) < sections[smallest].capacity
            THEN [moved |-> TRUE, student |-> s,
                  sched |-> [sched EXCEPT ![s] = tentative \cup KeysOf(sections[smallest].periods)]]
            ELSE TryMove(j + 1, [sched EXCEPT ![s] = tentative \cup KeysOf(sections[largest].periods)],
                         largest, smallest)

\* a pair is left alone only when the two sizes are equal
Balanced_EqualOnly(largest, smallest) ==
    Len(sections[largest].enrolledStudents) - Len(sections[smallest].enrolledStudents) <= 0

\* diff <= 1: the pair (largest, smallest) is left alone
Balanced(largest, smallest) ==
    Len(sections[largest].enrolledStudents) - Len(sections[smallest].enrolledStudents) <= 1

\* largest.enrolledStudents.filter(id => id !== studentId); smallest.push(studentId)
MoveStudent(secs, largest, smallest, studentId) ==
    [secs EXCEPT ![largest].enrolledStudents = SelectSeq(@, LAMBDA id : id # studentId),
                 ![smallest].enrolledStudents = Append(@, studentId)]

\* the pass limit: options.maxOptimizationIterations (web), a literal 500 (cli)
IterationLimit == IF engine = "web" THEN maxIterations ELSE GreedyFallbackIterations

\* ------------------------------------------- phase 4 (ILP): solveScheduleILP
\* the decision variables x_s_k as pairs <<student index, section index>>
\* (1-based); the Binary section declares one for every pair
BinaryVars == (1..Len(students)) \X (1..Len(sections))

SectionCourse(kx) == CourseOf(sections[kx].courseId)

\* the objective coefficient computed for x_s_k (0: the term is left out)
ObjectiveWeight(s, kx) ==
    LET cid == sections[kx].courseId
        required == IF cid \in Range(students[s].requiredCourses) THEN RequiredWeight ELSE 0
        electiveRank == IndexOf(students[s].electivePreferences, cid)
        weight == IF electiveRank # -1 THEN ElectiveWeightBase - electiveRank ELSE required
    IN IF GradeExcluded(SectionCourse(kx), students[s].grade) THEN 0
       ELSE IF weight > 0 THEN weight ELSE 0

ObjectiveValue(x) == SumOver([v \in x |-> ObjectiveWeight(v[1], v[2])], x)

\* rows req_s_c / elec_s_c: at most one section of a listed course
CourseRows(lists) ==
    {[vars |-> {<<pr[1], kx>> : kx \in Range(CourseSectionIndices(sections, pr[2]))}, rhs |-> 1] :
        pr \in {q \in UNION {{<<s, c>> : c \in Range(lists[s])} : s \in 1..Len(students)} :
                  /\ CourseSectionIndices(sections, q[2]) # <<>>
                  /\ ~GradeExcluded(CourseOf(q[2]), students[q[1]].grade)}}

\* a pair that the capacity and time rows take into account
Candidate(s, kx) ==
    /\ ~GradeExcluded(SectionCourse(kx), students[s].grade)
    /\ \/ sections[kx].courseId \in Range(students[s].requiredCourses)
       \/ sections[kx].courseId \in Range(students[s].electivePreferences)

\* rows cap_k, written only when some student is a candidate
CapacityRows ==
    {[vars |-> {<<s, kx>> : s \in {t \in 1..Len(students) : Candidate(t, kx)}},
      rhs |-> sections[kx].capacity] :
        kx \in {j \in 1..Len(sections) : \E t \in 1..Len(students) : Candidate(t, j)}}

\* rows time_s_key, written when two or more candidate sections meet at key
TimeRows ==
    LET At(s, key) == {kx \in 1..Len(sections) : Candidate(s, kx) /\ key \in KeysOf(sections[kx].periods)}
        keys == UNION {KeysOf(sections[kx].periods) : kx \in 1..Len(sections)}
    IN {[vars |-> {<<pr[1], kx>> : kx \in At(pr[1], pr[2])}, rhs |-> 1] :
          pr \in {q \in (1..Len(students)) \X keys : Cardinality(At(q[1], q[2])) > 1}}

ConstraintRows == CourseRows(RequiredLists) \cup CourseRows(ElectiveLists) \cup CapacityRows \cup TimeRows

\* x (the set of variables at 1) satisfies every row of `rows`
Satisfies(x, rows) == \A r \in rows : Cardinality(x \cap r.vars) <= r.rhs

\* x satisfies every row of the submitted model
SatisfiesModel(x) == Satisfies(x, ConstraintRows)

\* the best objective over the points of the model; variables without an
\* objective term add nothing, so the variables with a term decide it
MaxObjective ==
    LET rows == ConstraintRows
        withTerm == {v \in BinaryVars : ObjectiveWeight(v[1], v[2]) > 0}
        vals == {ObjectiveValue(y) : y \in {z \in SUBSET withTerm : Satisfies(z, rows)}}
    IN CHOOSE m \in vals : \A n \in vals : n <= m

SolverStatuses == {"Optimal", "Feasible", "Infeasible", "Error"}

\* solveScheduleILP threw instead of returning a result
Thrown == "exception"

\* success limited to the status Optimal
Succeeded_OptimalOnly(status) == status = "Optimal"

Succeeded(status) == status = "Optimal" \/ status = "Feasible"

\* extraction: for each student the ids of the sections whose variable is > 0.5
ExtractAssignments(x) ==
    [sid \in StudentIds |->
        LET s == CHOOSE i \in 1..Len(students) : students[i].id = sid
            ks == SelectSeq([i \in 1..Len(sections) |-> i], LAMBDA kx : <<s, kx>> \in x)
        IN [i \in 1..Len(ks) |-> sections[ks[i]].id]]

\* ---------------------------------------------------- applyILPAssignments
\* pushes of one student: every assigned section that does not hold them yet
ApplyStudent(secs, s) ==
    [i \in 1..Len(secs) |->
        IF secs[i].id \in Range(assignments[students[s].id])
           /\ students[s].id \notin Range(secs[i].enrolledStudents)
        THEN [secs[i] EXCEPT !.enrolledStudents = Append(@, students[s].id)]
        ELSE secs[i]]

\* the report of missing required courses left out
MissingRequired_NoneReported(s) == <<>>

\* unassigned entries of one student: required courses without an assigned section
MissingRequired(s) ==
    LET assignedCourses == {sec.courseId : sec \in {x \in Range(sections) : x.id \in Range(assignments[students[s].id])}}
        req == students[s].requiredCourses
        keep == SelectSeq(req, LAMBDA c :
                    /\ ~(HasCourse(c) /\ GradeExcluded(CourseOf(c), students[s].grade))
                    /\ c \notin assignedCourses)
    IN [i \in 1..Len(keep) |->
          [studentId |-> students[s].id, courseId |-> keep[i],
           reason |-> "ILP could not find feasible assignment (conflict or capacity)"]]

RECURSIVE ApplyFrom(_, _, _)
ApplyFrom(s, secs, un) ==
    IF s > Len(students) THEN [sections |-> secs, unassigned |-> un]
    ELSE ApplyFrom(s + 1, ApplyStudent(secs, s), un \o MissingRequired(s))

applyILPAssignments == ApplyFrom(1, sections, unassigned)

\* ------------------------------------------------------- progress reports
\* percents are kept as whole numbers: every percentComplete is multiplied by
\* 2 * students.length, which makes 35 + p / 100 * 50 and
\* base + studentsAssigned / students.length * span integers
PercentScale == IF students = <<>> THEN 2 ELSE 2 * Len(students)

\* report(phase, percent, ...)
Report(phase, percent) == [phase |-> phase, percent |-> percent * PercentScale]

\* the last report of generateSchedule, with its statistics
FinalReport ==
    [phase |-> "complete", percent |-> 100 * PercentScale,
     studentsAssigned |-> Len(students) - Len(unassigned),
     sectionsCreated |-> Len(sections)]

\* the callback handed to solveScheduleILP: 35 + (percentComplete / 100) * 50
ScaledReport(phase, percent) ==
    [phase |-> phase, percent |-> 35 * PercentScale + percent * (PercentScale \div 2)]

\* the reports of solveScheduleILP up to the call of the solver
ILPReportsBeforeSolve ==
    <<ScaledReport("initializing", 5), ScaledReport("initializing", 10),
      ScaledReport("initializing", 30), ScaledReport("initializing", 50),
      ScaledReport("initializing", 70), ScaledReport("optimizing", 75)>>

\* the reports of solveScheduleILP after the solver has returned
ILPReportsAfterSolve == <<ScaledReport("optimizing", 95), ScaledReport("complete", 100)>>

\* the report inside the required pass: base + studentsAssigned / length * span
LoopReport(studentsAssigned) ==
    [phase |-> "assigning",
     percent |-> (IF engine = "web" THEN 30 ELSE 50) * PercentScale
                 + 2 * studentsAssigned * (IF engine = "web" THEN 45 ELSE 20)]

\* the reports of the required pass while studentsAssigned goes from `from`
\* to `to`: one for each value that is a multiple of ReportEvery
RECURSIVE LoopReports(_, _)
LoopReports(from, to) ==
    IF from > to THEN <<>>
    ELSE (IF from % ReportEvery = 0 THEN <<LoopReport(from)>> ELSE <<>>) \o LoopReports(from + 1, to)

\* ----------------------------------------------------------- calculateScore
\* the score is kept doubled (the size spread of a course weighs 0.5)
ScoreOf(secs) ==
    LET sizes(c) == {Len(secs[i].enrolledStudents) : i \in {j \in 1..Len(secs) : secs[j].courseId = c}}
        spread(c) == IF Cardinality({j \in 1..Len(secs) : secs[j].courseId = c}) < 2 THEN 0
                     ELSE (CHOOSE m \in sizes(c) : \A n \in sizes(c) : n <= m)
                          - (CHOOSE m \in sizes(c) : \A n \in sizes(c) : m <= n)
        cids == {secs[i].courseId : i \in 1..Len(secs)}
        raw == 2 * MaxScore
               - 2 * EmptySectionCost * Cardinality({i \in 1..Len(secs) : Len(secs[i].enrolledStudents) = 0})
               - SumOver([c \in cids |-> spread(c)], cids)
               - 2 * MissingRoomCost * Cardinality({i \in 1..Len(secs) : secs[i].roomId = Absent})
               - 2 * MissingTeacherCost * Cardinality({i \in 1..Len(secs) : secs[i].teacherId = Absent})
    IN IF raw < 0 THEN 0 ELSE IF raw > 2 * MaxScore THEN 2 * MaxScore ELSE raw

FallbackWarning == "Used greedy fallback instead of ILP"

\* the metadata block: the cli engine records the algorithm and its warnings
MetadataOf(secs) ==
    [score |-> ScoreOf(secs),
     algorithm |-> IF engine = "cli" THEN algorithmUsed ELSE Absent,
     warnings |-> IF engine = "cli" /\ algorithmUsed = "greedy" THEN <<FallbackWarning>> ELSE <<>>]

NoMetadata == [score |-> 0, algorithm |-> Absent, warnings |-> <<>>]

NoSchedule == [sections |-> <<>>, unassignedStudents |-> <<>>, metadata |-> NoMetadata]

\* the schedule object handed back to the caller
ScheduleOf == [sections |-> sections, unassignedStudents |-> unassigned, metadata |-> metadata]

\* ------------------------------------------------------------------ inputs
Course(id, n, cap, restricted, grades, features) ==
    [id |-> id, sections |-> n, maxStudents |-> cap, hasGradeRestrictions |-> restricted,
     gradeRestrictions |-> grades, requiredFeatures |-> features]

Teacher(id, subjects, maxSections, unavailable) ==
    [id |-> id, subjects |-> subjects, maxSections |-> maxSections, unavailable |-> unavailable]

Room(id, capacity, features, unavailable) ==
    [id |-> id, capacity |-> capacity, features |-> features, unavailable |-> unavailable]

Student(id, grade, required, electives) ==
    [id |-> id, grade |-> grade, requiredCourses |-> required, electivePreferences |-> electives]

Configs(maxDays) ==
    {[periodsPerDay |-> p, daysPerWeek |-> d] : p \in 1..MaxPeriodsPerDay, d \in 1..maxDays}

FirstPeriod == [day |-> 0, slot |-> 0]

PlainRooms == <<Room("R1", MaxStudentsPerSection, {}, {}), Room("R2", MaxStudentsPerSection, {}, {})>>

OneStudent == <<Student("s1", 9, <<"A">>, <<"B">>)>>

\* staffing and timetabling inputs: teachers, their loads and absences vary
StaffInputs ==
    {[config |-> cfg,
      courses |-> <<Course("A", na, 1, gr, {9}, {}), Course("B", nb, 1, gr, {9}, {})>>,
      teachers |-> <<Teacher("T1", sub1, max1, un1), Teacher("T2", sub2, 1, {})>>,
      rooms |-> PlainRooms,
      students |-> OneStudent] :
        cfg \in Configs(MaxDaysPerWeek), na \in 1..MaxSections, nb \in 1..MaxSections,
        gr \in BOOLEAN, sub1 \in {{"A"}, {"A", "B"}}, max1 \in 0..MaxTeacherSections,
        un1 \in {{}, {FirstPeriod}, {[day |-> MaxDaysPerWeek - 1, slot |-> MaxPeriodsPerDay - 1]}},
        sub2 \in {{"B"}, {"A", "B"}}}

\* room inputs: capacities, features and closures of the rooms vary
RoomInputs ==
    {[config |-> cfg,
      courses |-> <<Course("A", na, capA, FALSE, {}, fa), Course("B", MaxSections, 1, FALSE, {}, {})>>,
      teachers |-> <<Teacher("T1", {"A", "B"}, MaxTeacherSections, {})>>,
      rooms |-> <<Room("R1", cap1, f1, un1), Room("R2", cap2, f2, {})>>,
      students |-> OneStudent] :
        cfg \in Configs(MaxDaysPerWeek), na \in 1..MaxSections, capA \in 1..MaxStudentsPerSection,
        fa \in {{}, {"lab"}},
        cap1 \in 1..MaxStudentsPerSection, f1 \in {{}, {"lab"}}, un1 \in {{}, {FirstPeriod}},
        cap2 \in 1..MaxStudentsPerSection, f2 \in {{}, {"lab"}}}

SharedTeachers == <<Teacher("T1", {"A", "B"}, MaxTeacherSections, {}), Teacher("T2", {"A"}, 1, {})>>

\* the grade restrictions a course of the timetabling inputs may carry
GradeChoices == {<<FALSE, {}>>, <<TRUE, {9}>>, <<TRUE, {10}>>}

\* timetabling inputs: three courses whose grade restrictions vary; T1 takes
\* course A, and course C too when qualified; T2 takes B; T3 is qualified for C
TimeInputs ==
    {[config |-> cfg,
      courses |-> <<Course("A", na, 1, ga[1], ga[2], {}), Course("B", 1, 1, gb[1], gb[2], {}),
                    Course("C", 1, 1, gc[1], gc[2], {})>>,
      teachers |-> <<Teacher("T1", sub1, MaxSections + 1, un1), Teacher("T2", {"B"}, 1, {}),
                     Teacher("T3", {"C"}, 1, {})>>,
      rooms |-> PlainRooms,
      students |-> OneStudent] :
        cfg \in Configs(MaxDaysPerWeek), na \in 1..MaxSections,
        ga \in GradeChoices, gb \in GradeChoices, gc \in GradeChoices,
        sub1 \in {{"A"}, {"A", "C"}},
        un1 \in {{}, {FirstPeriod}, {[day |-> MaxDaysPerWeek - 1, slot |-> MaxPeriodsPerDay - 1]}}}

\* time-assignment inputs in which two single-section courses X and Y are
\* placed before the sections of course A; the teachers of X and Y may be
\* closed at the first period, and each course is open to all grades or
\* restricted to grades 9 and 10
SpreadInputs ==
    {[config |-> cfg,
      courses |-> <<Course("X", 1, 1, gx, {9, 10}, {}), Course("Y", 1, 1, gy, {9, 10}, {}),
                    Course("A", na, 1, ga, {9, 10}, {})>>,
      teachers |-> <<Teacher("T1", {"X"}, 1, unx), Teacher("T2", {"Y"}, 1, uny),
                     Teacher("T3", {"A"}, 1, {}), Teacher("T4", {"A"}, 1, {})>>,
      rooms |-> PlainRooms,
      students |-> OneStudent] :
        cfg \in Configs(MaxDaysPerWeek), na \in 1..MaxSections,
        gx \in BOOLEAN, gy \in BOOLEAN, ga \in BOOLEAN,
        unx \in {{}, {FirstPeriod}}, uny \in {{}, {FirstPeriod}}}

\* enrolment inputs for the greedy passes and the rebalancer
GreedyInputs ==
    {[config |-> cfg,
      courses |-> <<Course("A", na, capA, gr, {9}, {}), Course("B", 1, capB, FALSE, {}, {})>>,
      teachers |-> SharedTeachers,
      rooms |-> PlainRooms,
      students |-> <<Student("s1", g1, req1, el1), Student("s2", 9, req2, el2), Student("s3", 9, <<"A">>, <<>>)>>] :
        cfg \in Configs(1), na \in 1..MaxSections, capA \in 1..MaxStudentsPerSection,
        capB \in 1..MaxStudentsPerSection, gr \in BOOLEAN, g1 \in {9, 10},
        req1 \in {<<>>, <<"A">>, <<"A", "B">>, <<"A", "A">>, <<"X">>, <<"X", "A">>},
        el1 \in {<<>>, <<"A">>, <<"B">>},
        req2 \in {<<"A">>, <<"B", "A">>}, el2 \in {<<>>, <<"B">>}}

StudentNames == <<"s1", "s2", "s3", "s4", "s5", "s6">>

\* rebalancing inputs: course B (one section, room for everyone) comes first
\* and course A has up to MaxCourseSections sections, each with its own
\* teacher; every student requires A, alone or after B
RebalanceInputs ==
    {[config |-> cfg,
      courses |-> <<Course("B", 1, MaxStudents, FALSE, {}, {}), Course("A", na, capA, FALSE, {}, {})>>,
      teachers |-> <<Teacher("T1", {"A"}, 1, {}), Teacher("T2", {"A"}, 1, {}), Teacher("T3", {"A"}, 1, {})>>,
      rooms |-> PlainRooms,
      students |-> [i \in 1..MaxStudents |-> Student(StudentNames[i], 9, req[i], <<>>)]] :
        cfg \in Configs(1), na \in 2..MaxCourseSections, capA \in 2..(MaxStudents - 1),
        req \in [1..MaxStudents -> {<<"A">>, <<"B", "A">>}]}

\* inputs in which a student may list course A both as required and as an
\* elective: A has two sections, each with its own teacher, the first of
\* whom may be closed at the first period; course B has one section; a
\* student may require a course X that the school does not offer
RepeatInputs ==
    {[config |-> cfg,
      courses |-> <<Course("A", 2, capA, FALSE, {}, {}), Course("B", 1, MaxStudents, FALSE, {}, {})>>,
      teachers |-> <<Teacher("T1", {"A"}, 1, un1), Teacher("T2", {"A"}, 1, {}), Teacher("T3", {"B"}, 1, {})>>,
      rooms |-> <<Room("R1", MaxStudents, {}, {}), Room("R2", MaxStudents, {}, {})>>,
      students |-> <<Student("s1", 9, <<"A">>, el1), Student("s2", 9, req2, <<>>),
                     Student("s3", 9, req3, el3)>>] :
        cfg \in Configs(1), capA \in 2..(MaxStudents - 1), un1 \in {{}, {FirstPeriod}},
        el1 \in {<<>>, <<"A">>}, req2 \in {<<"A">>, <<"A", "X">>},
        req3 \in {<<"A">>, <<"B">>}, el3 \in {<<>>, <<"A">>}}

\* an elective list that names course B at 0-based rank ElectiveWeightBase,
\* after that many entries for a course the school does not offer
LowRankedElective == [i \in 1..ElectiveWeightBase |-> "X"] \o <<"B">>

\* enrolment inputs for the ILP path
ILPInputs ==
    {[config |-> cfg,
      courses |-> <<Course("A", na, capA, gr, {9}, {}), Course("B", 1, 1, FALSE, {}, {})>>,
      teachers |-> SharedTeachers,
      rooms |-> PlainRooms,
      students |-> <<Student("s1", g1, req1, el1), Student("s2", 9, <<"B", "A">>, <<>>)>>] :
        cfg \in Configs(1), na \in 1..MaxSections, capA \in 1..MaxStudentsPerSection,
        gr \in BOOLEAN, g1 \in {9, 10},
        req1 \in {<<>>, <<"A">>, <<"A", "B">>, <<"X">>},
        el1 \in {<<>>, <<"A">>, <<"B">>, LowRankedElective}}

Modes == {<<"web", FALSE>>, <<"cli", FALSE>>, <<"cli", TRUE>>}

Runs ==
    ((StaffInputs \cup RoomInputs) \X Modes)
    \cup (GreedyInputs \X {<<"web", FALSE>>, <<"cli", FALSE>>})
    \cup (ILPInputs \X {<<"cli", TRUE>>})
    \cup (RepeatInputs \X Modes)

\* the values of options.maxOptimizationIterations: a few passes only, or
\* the default
PassLimits == (1..MaxFewPasses) \cup {DefaultMaxOptimizationIterations}

\* the state at the entry of generateSchedule, for one run of a family with
\* one of the pass limits (only the web engine reads the option)
InitWith(runs, limits) ==
    /\ \E run \in runs :
        /\ config = run[1].config
        /\ courses = run[1].courses
        /\ teachers = run[1].teachers
        /\ rooms = run[1].rooms
        /\ students = run[1].students
        /\ engine = run[2][1]
        /\ useILP = run[2][2]
        /\ maxIterations \in (IF run[2][1] = "web" THEN limits ELSE {DefaultMaxOptimizationIterations})
    /\ pc = "createSections"
    /\ sections = <<>>
    /\ unassigned = <<>>
    /\ k = 1
    /\ slotUsage = <<>>
    /\ gradeSlotUsage = <<>>
    /\ courseUsedSlots = {}
    /\ teacherSchedules = <<>>
    /\ roomSchedules = <<>>
    /\ studentSchedules = <<>>
    /\ si = 1
    /\ ci = 1
    /\ ilpStatus = ""
    /\ assignments = <<>>
    /\ algorithmUsed = "greedy"
    /\ sectionsByCourse = <<>>
    /\ iter = 0
    /\ improved = FALSE
    /\ cpos = 1
    /\ events = <<>>
    /\ calls = <<>>
    /\ metadata = NoMetadata
    /\ callNo = 1
    /\ first = NoSchedule

\* the same with the default pass limit
InitRuns(runs) == InitWith(runs, {DefaultMaxOptimizationIterations})

Init == InitRuns(Runs)

InitStaff == InitRuns(StaffInputs \X Modes)

InitRooms == InitRuns(RoomInputs \X Modes)

InitTwice ==
    InitRuns((GreedyInputs \cup RebalanceInputs \cup RepeatInputs) \X {<<"web", FALSE>>, <<"cli", FALSE>>})

\* the rebalancing inputs with the longest day in which every student from
\* the third on requires B and then A, and the inputs with repeated courses
\* with the longest day, open teachers and no missing course, on the web
\* engine, under every pass limit
InitRebalance ==
    InitWith(({r \in RebalanceInputs :
                 /\ r.config.periodsPerDay = MaxPeriodsPerDay
                 /\ \A i \in 3..MaxStudents : r.students[i].requiredCourses = <<"B", "A">>}
              \cup {r \in RepeatInputs :
                      /\ r.config.periodsPerDay = MaxPeriodsPerDay
                      /\ r.teachers[1].unavailable = {}
                      /\ r.students[2].requiredCourses = <<"A">>})
             \X {<<"web", FALSE>>}, PassLimits)

InitTime == InitRuns((TimeInputs \cup SpreadInputs) \X {<<"web", FALSE>>})

InitEnrol ==
    InitRuns((GreedyInputs \X {<<"web", FALSE>>, <<"cli", FALSE>>}) \cup (ILPInputs \X {<<"cli", TRUE>>}))

\* ----------------------------------------------------------------- actions
\* Phase 1, then the seeding of the phase 2 tables
CreateSections ==
    /\ pc = "createSections"
    /\ sections' = createSections
    /\ teacherSchedules' = SeedTeacherSchedules
    /\ slotUsage' = [s \in Slots |-> 0]
    /\ gradeSlotUsage' = [g \in UNION {GradesOf(courses[i]) : i \in 1..Len(courses)} |-> [s \in Slots |-> 0]]
    /\ courseUsedSlots' = {}
    /\ k' = 1
    /\ pc' = "assignTimeSlots"
    /\ UNCHANGED <<inputVars, unassigned, roomSchedules, studentSchedules, greedyVars,
                   ilpVars, algorithmUsed, optVars>>
    /\ events' = events \o <<Report("initializing", 0), Report("initializing", 5), Report("assigning", 10)>>
    /\ calls' = calls \o <<"createSections", "assignTimeSlots">>
    /\ UNCHANGED <<metadata, callVars>>

\* Phase 2, web engine: one section gets one slot for the whole week
AssignTimeSlot ==
    /\ pc = "assignTimeSlots"
    /\ engine = "web"
    /\ k <= Len(sections)
    /\ LET chosenSlot == ChosenSlot(k)
           tid == sections[k].teacherId
           grades == GradesOf(CourseOf(sections[k].courseId))
           periods == WeekPeriods(chosenSlot)
       IN /\ courseUsedSlots' = UsedSlotsAt(k) \cup {chosenSlot}
          /\ slotUsage' = [slotUsage EXCEPT ![chosenSlot] = @ + 1]
          /\ gradeSlotUsage' = [g \in DOMAIN gradeSlotUsage |->
                                  IF g \in grades
                                  THEN [gradeSlotUsage[g] EXCEPT ![chosenSlot] = @ + 1]
                                  ELSE gradeSlotUsage[g]]
          /\ sections' = [sections EXCEPT ![k].periods = @ \cup periods]
          /\ teacherSchedules' = IF tid = Absent THEN teacherSchedules
                                 ELSE [teacherSchedules EXCEPT ![tid] = @ \cup KeysOf(periods)]
    /\ k' = k + 1
    /\ UNCHANGED <<inputVars, pc, unassigned, roomSchedules, studentSchedules, greedyVars,
                   ilpVars, algorithmUsed, optVars>>
    /\ UNCHANGED <<events, calls, metadata, callVars>>

\* Phase 2, cli engine: one section gets, for each day, the first free slot of its rotation
AssignTimeSlotPerDay ==
    /\ pc = "assignTimeSlots"
    /\ engine = "cli"
    /\ k <= Len(sections)
    /\ LET tid == sections[k].teacherId
           periods == CliPeriods(k)
       IN /\ sections' = [sections EXCEPT ![k].periods = @ \cup periods]
          /\ teacherSchedules' = IF tid = Absent THEN teacherSchedules
                                 ELSE [teacherSchedules EXCEPT ![tid] = @ \cup KeysOf(periods)]
    /\ k' = k + 1
    /\ UNCHANGED <<inputVars, pc, unassigned, slotUsage, gradeSlotUsage, courseUsedSlots,
                   roomSchedules, studentSchedules, greedyVars, ilpVars, algorithmUsed, optVars>>
    /\ UNCHANGED <<events, calls, metadata, callVars>>

\* end of phase 2: seeding of the room tables
BeginAssignRooms ==
    /\ pc = "assignTimeSlots"
    /\ k > Len(sections)
    /\ roomSchedules' = SeedRoomSchedules
    /\ k' = 1
    /\ pc' = "assignRooms"
    /\ UNCHANGED <<inputVars, sections, unassigned, timeVars, studentSchedules, greedyVars,
                   ilpVars, algorithmUsed, optVars>>
    /\ events' = Append(events, Report("assigning", 20))
    /\ calls' = Append(calls, "assignRooms")
    /\ UNCHANGED <<metadata, callVars>>

\* Phase 3: one section gets the first usable room of its sorted candidates
AssignRoom ==
    /\ pc = "assignRooms"
    /\ k <= Len(sections)
    /\ LET room == ChosenRoom(sections[k])
       IN IF room = Absent
          THEN UNCHANGED <<sections, roomSchedules>>
          ELSE /\ sections' = [sections EXCEPT ![k].roomId = room]
               /\ roomSchedules' = [roomSchedules EXCEPT ![room] = @ \cup KeysOf(sections[k].periods)]
    /\ k' = k + 1
    /\ UNCHANGED <<inputVars, pc, unassigned, timeVars, studentSchedules, greedyVars,
                   ilpVars, algorithmUsed, optVars>>
    /\ UNCHANGED <<events, calls, metadata, callVars>>

\* entry of runGreedyAssignment: empty student schedules, first required course
StartGreedy(reported) ==
    /\ events' = events \o reported \o LoopReports(1, FirstPosFrom(1, RequiredLists)[1] - 1)
    /\ calls' = Append(calls, "runGreedyAssignment")
    /\ studentSchedules' = EmptySchedules
    /\ si' = FirstPosFrom(1, RequiredLists)[1]
    /\ ci' = 1
    /\ pc' = "greedyRequired"

\* Phase 4 without the solver: the web engine, or the cli engine with useILP = false
BeginGreedy ==
    /\ pc = "assignRooms"
    /\ k > Len(sections)
    /\ engine = "web" \/ ~useILP
    /\ StartGreedy(<<Report("assigning", 30)>>)
    /\ UNCHANGED <<inputVars, sections, unassigned, k, timeVars, roomSchedules,
                   ilpVars, algorithmUsed, optVars>>
    /\ UNCHANGED <<metadata, callVars>>

\* Phase 4 with the solver: the model is built and solved; the solver is a
\* black box that returns a status and, on success, a point of the model
SolveILP ==
    /\ pc = "assignRooms"
    /\ k > Len(sections)
    /\ engine = "cli" /\ useILP
    /\ LET rows == ConstraintRows
           best == MaxObjective
       IN \E status \in SolverStatuses \cup {Thrown} :
            /\ ilpStatus' = status
            /\ events' = events \o <<Report("assigning", 30), Report("optimizing", 35)>>
                                 \o ILPReportsBeforeSolve
                                 \o (IF status = Thrown THEN <<>> ELSE ILPReportsAfterSolve)
            /\ IF Succeeded(status)
               THEN \E x \in SUBSET BinaryVars :
                       /\ Satisfies(x, rows)
                       /\ status = "Optimal" => ObjectiveValue(x) = best
                       /\ assignments' = ExtractAssignments(x)
               ELSE assignments' = [s \in StudentIds |-> <<>>]
    /\ pc' = "ilpSolved"
    /\ UNCHANGED <<inputVars, sections, unassigned, k, timeVars, roomSchedules,
                   studentSchedules, greedyVars, algorithmUsed, optVars>>
    /\ calls' = Append(calls, "solveScheduleILP")
    /\ UNCHANGED <<metadata, callVars>>

\* ilpResult.success: the assignments are applied and the schedule is finalized
ApplyILP ==
    /\ pc = "ilpSolved"
    /\ Succeeded(ilpStatus)
    /\ algorithmUsed' = "ilp-highs"
    /\ sections' = applyILPAssignments.sections
    /\ unassigned' = applyILPAssignments.unassigned
    /\ pc' = "finalize"
    /\ UNCHANGED <<inputVars, k, timeVars, roomSchedules, studentSchedules, greedyVars,
                   ilpVars, optVars>>
    /\ events' = events \o <<Report("optimizing", 85), Report("optimizing", 90)>>
    /\ calls' = Append(calls, "applyILPAssignments")
    /\ UNCHANGED <<metadata, callVars>>

\* any other status, or an exception: the greedy fallback
FallbackToGreedy ==
    /\ pc = "ilpSolved"
    /\ ~Succeeded(ilpStatus)
    /\ StartGreedy(<<Report("optimizing", 85)>>)
    /\ UNCHANGED <<inputVars, sections, unassigned, k, timeVars, roomSchedules,
                   ilpVars, algorithmUsed, optVars>>
    /\ UNCHANGED <<metadata, callVars>>

\* required pass: one (student, required course) of the double loop
GreedyRequired ==
    /\ pc = "greedyRequired"
    /\ si <= Len(students)
    /\ LET student == students[si]
           courseId == student.requiredCourses[ci]
           next == NextPos(si, ci, RequiredLists)
       IN /\ IF ~HasCourse(courseId)
             THEN /\ unassigned' = Append(unassigned,
                        [studentId |-> student.id, courseId |-> courseId, reason |-> "Course not found"])
                  /\ UNCHANGED <<sections, studentSchedules>>
             ELSE IF GradeExcluded(CourseOf(courseId), student.grade)
             THEN UNCHANGED <<sections, studentSchedules, unassigned>>
             ELSE LET target == TargetSection(student.id, courseId)
                  IN IF target = 0
                     THEN /\ unassigned' = Append(unassigned,
                                [studentId |-> student.id, courseId |-> courseId,
                                 reason |-> "No available section (conflict or capacity)"])
                          /\ UNCHANGED <<sections, studentSchedules>>
                     ELSE /\ sections' = Enrol(sections, target, student.id)
                          /\ studentSchedules' = [studentSchedules EXCEPT
                                ![student.id] = @ \cup KeysOf(sections[target].periods)]
                          /\ UNCHANGED unassigned
          /\ si' = next[1]
          /\ ci' = next[2]
          /\ events' = events \o LoopReports(si, next[1] - 1)
    /\ UNCHANGED <<inputVars, pc, k, timeVars, roomSchedules, ilpVars, algorithmUsed, optVars>>
    /\ UNCHANGED <<calls, metadata, callVars>>

\* end of the required pass
BeginElectives ==
    /\ pc = "greedyRequired"
    /\ si > Len(students)
    /\ si' = FirstPosFrom(1, ElectiveLists)[1]
    /\ ci' = 1
    /\ pc' = "greedyElective"
    /\ UNCHANGED <<inputVars, sections, unassigned, k, timeVars, roomSchedules,
                   studentSchedules, ilpVars, algorithmUsed, optVars>>
    /\ events' = Append(events, Report("assigning", 75))
    /\ UNCHANGED <<calls, metadata, callVars>>

\* elective pass: one (student, elective) of the double loop; failures are silent
GreedyElective ==
    /\ pc = "greedyElective"
    /\ si <= Len(students)
    /\ LET student == students[si]
           courseId == student.electivePreferences[ci]
           next == NextPos(si, ci, ElectiveLists)
           skip == ~HasCourse(courseId) \/ GradeExcluded(CourseOf(courseId), student.grade)
           target == IF skip THEN 0 ELSE TargetSection(student.id, courseId)
       IN /\ IF target = 0
             THEN UNCHANGED <<sections, studentSchedules>>
             ELSE /\ sections' = Enrol(sections, target, student.id)
                  /\ studentSchedules' = [studentSchedules EXCEPT
                        ![student.id] = @ \cup KeysOf(sections[target].periods)]
          /\ si' = next[1]
          /\ ci' = next[2]
    /\ UNCHANGED <<inputVars, pc, unassigned, k, timeVars, roomSchedules, ilpVars,
                   algorithmUsed, optVars>>
    /\ UNCHANGED <<events, calls, metadata, callVars>>

\* end of the elective pass: entry of optimizeSections (the web engine
\* rebuilds the student schedules from the sections first)
BeginOptimize ==
    /\ pc = "greedyElective"
    /\ si > Len(students)
    /\ studentSchedules' = IF engine = "web" THEN buildStudentSchedules ELSE studentSchedules
    /\ sectionsByCourse' = GroupByCourse(1, <<>>)
    /\ iter' = 0
    /\ improved' = FALSE
    /\ cpos' = 1
    /\ pc' = IF 0 < IterationLimit THEN "optimize" ELSE "finalize"
    /\ UNCHANGED <<inputVars, sections, unassigned, k, timeVars, roomSchedules, greedyVars,
                   ilpVars, algorithmUsed>>
    /\ events' = Append(events, Report("optimizing", 80))
    /\ calls' = Append(calls, "optimizeSections")
    /\ UNCHANGED <<metadata, callVars>>

\* Phase 5: one course of one pass
OptimizeCourse ==
    /\ pc = "optimize"
    /\ cpos <= Len(sectionsByCourse)
    /\ LET courseSections == sectionsByCourse[cpos]
           sorted == SortStable(courseSections,
                                [i \in 1..Len(sections) |-> Len(sections[i].enrolledStudents)])
           smallest == sorted[1]
           largest == sorted[Len(sorted)]
       IN IF Len(courseSections) < 2
          THEN UNCHANGED <<sections, studentSchedules, sectionsByCourse, improved>>
          ELSE /\ sectionsByCourse' = [sectionsByCourse EXCEPT ![cpos] = sorted]
               /\ IF Balanced(largest, smallest)
                  THEN UNCHANGED <<sections, studentSchedules, improved>>
                  ELSE LET try == TryMove(1, studentSchedules, largest, smallest)
                       IN /\ studentSchedules' = try.sched
                          /\ IF try.moved
                             THEN /\ sections' = MoveStudent(sections, largest, smallest, try.student)
                                  /\ improved' = TRUE
                             ELSE UNCHANGED <<sections, improved>>
    /\ cpos' = cpos + 1
    /\ UNCHANGED <<inputVars, pc, unassigned, k, timeVars, roomSchedules, greedyVars, ilpVars,
                   algorithmUsed, iter>>
    /\ UNCHANGED <<events, calls, metadata, callVars>>

\* end of one pass: stop without improvement or at the pass limit
EndPass ==
    /\ pc = "optimize"
    /\ cpos > Len(sectionsByCourse)
    /\ IF improved /\ iter + 1 < IterationLimit
       THEN /\ iter' = iter + 1
            /\ improved' = FALSE
            /\ cpos' = 1
            /\ pc' = "optimize"
       ELSE /\ pc' = "finalize"
            /\ UNCHANGED <<iter, improved, cpos>>
    /\ UNCHANGED <<inputVars, sections, unassigned, k, timeVars, roomSchedules, studentSchedules,
                   greedyVars, ilpVars, algorithmUsed, sectionsByCourse>>
    /\ UNCHANGED <<events, calls, metadata, callVars>>

\* the schedule object is built and returned
Finalize ==
    /\ pc = "finalize"
    /\ pc' = "done"
    /\ UNCHANGED <<inputVars, sections, unassigned, k, timeVars, roomSchedules, studentSchedules,
                   greedyVars, ilpVars, algorithmUsed, optVars>>
    /\ events' = events \o (IF engine = "cli" THEN <<Report("validating", 95)>> ELSE <<>>)
                         \o <<FinalReport>>
    /\ calls' = Append(calls, "calculateScore")
    /\ metadata' = MetadataOf(sections)
    /\ UNCHANGED callVars

Next ==
    \/ CreateSections
    \/ AssignTimeSlot
    \/ AssignTimeSlotPerDay
    \/ BeginAssignRooms
    \/ AssignRoom
    \/ BeginGreedy
    \/ SolveILP
    \/ ApplyILP
    \/ FallbackToGreedy
    \/ GreedyRequired
    \/ BeginElectives
    \/ GreedyElective
    \/ BeginOptimize
    \/ OptimizeCourse
    \/ EndPass
    \/ Finalize

Spec == Init /\ [][Next]_vars

\* a second call of generateSchedule on the same input, greedy path forced:
\* the schedule of the first call is kept and every local starts afresh
Rerun ==
    /\ pc = "done"
    /\ callNo = 1
    /\ engine = "web" \/ ~useILP
    /\ first' = ScheduleOf
    /\ callNo' = 2
    /\ pc' = "createSections"
    /\ sections' = <<>>
    /\ unassigned' = <<>>
    /\ k' = 1
    /\ slotUsage' = <<>>
    /\ gradeSlotUsage' = <<>>
    /\ courseUsedSlots' = {}
    /\ teacherSchedules' = <<>>
    /\ roomSchedules' = <<>>
    /\ studentSchedules' = <<>>
    /\ si' = 1
    /\ ci' = 1
    /\ algorithmUsed' = "greedy"
    /\ sectionsByCourse' = <<>>
    /\ iter' = 0
    /\ improved' = FALSE
    /\ cpos' = 1
    /\ events' = <<>>
    /\ calls' = <<>>
    /\ metadata' = NoMetadata
    /\ UNCHANGED <<inputVars, ilpVars>>

\* the calls with the greedy path forced: no step of the ILP path
NextGreedy ==
    \/ CreateSections
    \/ AssignTimeSlot
    \/ AssignTimeSlotPerDay
    \/ BeginAssignRooms
    \/ AssignRoom
    \/ BeginGreedy
    \/ GreedyRequired
    \/ BeginElectives
    \/ GreedyElective
    \/ BeginOptimize
    \/ OptimizeCourse
    \/ EndPass
    \/ Finalize
    \/ Rerun

\* the web engine: one slot per section, greedy assignment
NextWeb ==
    \/ CreateSections
    \/ AssignTimeSlot
    \/ BeginAssignRooms
    \/ AssignRoom
    \/ BeginGreedy
    \/ GreedyRequired
    \/ BeginElectives
    \/ GreedyElective
    \/ BeginOptimize
    \/ OptimizeCourse
    \/ EndPass
    \/ Finalize

\* the web engine, run on the timetabling inputs
SpecTime == InitTime /\ [][NextWeb]_vars

\* the web engine on the rebalancing inputs, with few passes allowed or the
\* default; generateSchedule is one sequential call that runs to its return
SpecRebalance == InitRebalance /\ [][NextWeb]_vars /\ WF_vars(NextWeb)

\* two calls in a row on one input with the greedy path forced
SpecTwice == InitTwice /\ [][NextGreedy]_vars

\* the same engine, run on the staffing inputs only
SpecStaff == InitStaff /\ [][Next]_vars

\* the same engine, run on the room inputs only
SpecRooms == InitRooms /\ [][Next]_vars

\* the same engine, run on the enrolment inputs only
SpecEnrol == InitEnrol /\ [][Next]_vars

\* the schedule has been returned
Returned == pc = "done"

\* ------------------------------------------------------------------ claims
EnrolledIn(sid) == {i \in 1..Len(sections) : sid \in Range(sections[i].enrolledStudents)}

SharePeriod(i, j) == KeysOf(sections[i].periods) \cap KeysOf(sections[j].periods) # {}

\* C1: in every returned schedule no student is enrolled in two sections
\* that share a period (day, slot)
C1_NoStudentPeriodClash ==
    Returned => \A sid \in StudentIds : \A i, j \in EnrolledIn(sid) : i # j => ~SharePeriod(i, j)

\* number of times a student is on the rolls of the sections of a course
TimesEnrolled(sid, courseId) ==
    SumOver([i \in 1..Len(sections) |->
                IF sections[i].courseId = courseId
                THEN Cardinality({n \in 1..Len(sections[i].enrolledStudents) : sections[i].enrolledStudents[n] = sid})
                ELSE 0],
            1..Len(sections))

\* C2: in every returned schedule each student is enrolled in at most one
\* section of any single course
C2_AtMostOneSectionPerCourse ==
    Returned => \A sid \in StudentIds : \A i \in 1..Len(courses) : TimesEnrolled(sid, courses[i].id) <= 1

\* C3: in every returned schedule the number of students enrolled in a
\* section does not exceed the section's capacity
C3_EnrolmentWithinCapacity ==
    Returned => \A i \in 1..Len(sections) : Len(sections[i].enrolledStudents) <= sections[i].capacity

\* C4: in every returned schedule every student enrolled in a section of a
\* grade-restricted course has a grade in the course's restriction set
C4_GradeRestrictionHonoured ==
    Returned => \A i \in 1..Len(sections) : \A sid \in Range(sections[i].enrolledStudents) :
                    ~GradeExcluded(SectionCourse(i), StudentOf(sid).grade)

\* C5: in every returned schedule no two sections with the same teacher
\* share a period
C5_NoTeacherPeriodClash ==
    Returned => \A i, j \in 1..Len(sections) :
                    (i # j /\ sections[i].teacherId # Absent /\ sections[i].teacherId = sections[j].teacherId)
                        => ~SharePeriod(i, j)

\* C6: in every returned schedule no section with a teacher meets in a
\* period of that teacher's unavailable set
C6_TeacherAvailabilityHonoured ==
    Returned => \A i \in 1..Len(sections) :
                    sections[i].teacherId # Absent
                        => sections[i].periods \cap TeacherOf(sections[i].teacherId).unavailable = {}

SectionsTaught(tid) == Cardinality({i \in 1..Len(sections) : sections[i].teacherId = tid})

\* C7: after section creation and in every returned schedule, the number of
\* sections of a teacher does not exceed the teacher's maxSections
C7_TeacherLoadWithinMax ==
    pc # "createSections" => \A i \in 1..Len(teachers) : SectionsTaught(teachers[i].id) <= teachers[i].maxSections

\* C8: in every returned schedule a section with a room meets outside the
\* room's unavailable periods, and no two sections in one room share a period
C8_RoomFreeAndUnshared ==
    Returned =>
        /\ \A i \in 1..Len(sections) :
              sections[i].roomId # Absent
                  => sections[i].periods \cap RoomOf(sections[i].roomId).unavailable = {}
        /\ \A i, j \in 1..Len(sections) :
              (i # j /\ sections[i].roomId # Absent /\ sections[i].roomId = sections[j].roomId)
                  => ~SharePeriod(i, j)

\* a returned schedule where one room holds two sections that both meet, and
\* a room with a closure holds a section that meets
C8_Witness ==
    /\ Returned
    /\ \E i, j \in 1..Len(sections) :
          /\ i # j
          /\ sections[i].roomId # Absent
          /\ sections[i].roomId = sections[j].roomId
          /\ sections[i].periods # {}
          /\ sections[j].periods # {}
    /\ \E i \in 1..Len(sections) :
          /\ sections[i].roomId # Absent
          /\ sections[i].periods # {}
          /\ RoomOf(sections[i].roomId).unavailable # {}

\* C9: in every returned schedule the room of a section has every feature
\* the course requires and at least the section's capacity
C9_RoomFitsSection ==
    Returned => \A i \in 1..Len(sections) :
                    sections[i].roomId # Absent
                        => /\ SectionCourse(i).requiredFeatures \subseteq RoomOf(sections[i].roomId).features
                           /\ RoomOf(sections[i].roomId).capacity >= sections[i].capacity

\* a returned schedule where a section of a course that requires a feature
\* has a room, while another room lacks the feature and another is too small
C9_Witness ==
    /\ Returned
    /\ \E i \in 1..Len(sections) :
          /\ sections[i].roomId # Absent
          /\ SectionCourse(i).requiredFeatures # {}
          /\ \E r \in 1..Len(rooms) : ~(SectionCourse(i).requiredFeatures \subseteq rooms[r].features)
    /\ \E i \in 1..Len(sections) :
          /\ sections[i].roomId # Absent
          /\ \E r \in 1..Len(rooms) : rooms[r].capacity < sections[i].capacity

CourseIndex(courseId) == CHOOSE i \in 1..Len(courses) : courses[i].id = courseId

\* sections a teacher holds in the courses that come before course c
LoadBefore(tid, c) ==
    Cardinality({i \in 1..Len(sections) :
                    sections[i].teacherId = tid /\ CourseIndex(sections[i].courseId) < c})

\* no teacher is qualified for course c with capacity left when c is reached
NoTeacherLeftFor(c) ==
    \A t \in 1..Len(teachers) :
        courses[c].id \notin teachers[t].subjects \/ LoadBefore(teachers[t].id, c) >= teachers[t].maxSections

\* C10: every section with a teacher has a teacher qualified for its course,
\* and a course reached with no qualified teacher with capacity left has
\* all its sections without a teacher
C10_TeacherQualifiedOrAbsent ==
    pc # "createSections" =>
        /\ \A i \in 1..Len(sections) :
              sections[i].teacherId # Absent
                  => sections[i].courseId \in TeacherOf(sections[i].teacherId).subjects
        /\ \A c \in 1..Len(courses) :
              NoTeacherLeftFor(c)
                  => \A i \in 1..Len(sections) :
                        sections[i].courseId = courses[c].id => sections[i].teacherId = Absent

\* a returned schedule with a taught section, a teacher who is not qualified
\* for every course, and a course left without teachers although a teacher
\* is qualified for it
C10_Witness ==
    /\ Returned
    /\ \E i \in 1..Len(sections) : sections[i].teacherId # Absent
    /\ \E t \in 1..Len(teachers), c \in 1..Len(courses) :
          teachers[t].maxSections > 0 /\ courses[c].id \notin teachers[t].subjects
    /\ \E c \in 1..Len(courses) :
          /\ NoTeacherLeftFor(c)
          /\ \E t \in 1..Len(teachers) : courses[c].id \in teachers[t].subjects

\* student sid is on the roll of some section of course courseId
EnrolledInCourse(sid, courseId) == \E i \in EnrolledIn(sid) : sections[i].courseId = courseId

\* the unassigned list has an entry for (sid, courseId)
Reported(sid, courseId) ==
    \E n \in 1..Len(unassigned) : unassigned[n].studentId = sid /\ unassigned[n].courseId = courseId

\* a required course of student s that exists and admits the student's grade
EligibleRequired(s) ==
    {c \in Range(students[s].requiredCourses) : HasCourse(c) /\ ~GradeExcluded(CourseOf(c), students[s].grade)}

\* C11: in every returned schedule, for every student and every required
\* course that exists in the input and admits the student's grade, the
\* student is enrolled in a section of the course or the unassigned list has
\* an entry for the pair (greedy path, rebalanced, and ILP path)
C11_RequiredPlacedOrReported ==
    Returned => \A s \in 1..Len(students) : \A c \in EligibleRequired(s) :
                    EnrolledInCourse(students[s].id, c) \/ Reported(students[s].id, c)

\* a schedule returned from the solver's assignments in which one student
\* holds an eligible required course and another eligible required course
\* of a student is reported as unassigned
C11_Witness ==
    /\ Returned
    /\ algorithmUsed = "ilp-highs"
    /\ \E s \in 1..Len(students) : \E c \in EligibleRequired(s) : EnrolledInCourse(students[s].id, c)
    /\ \E s \in 1..Len(students) : \E c \in EligibleRequired(s) :
          ~EnrolledInCourse(students[s].id, c) /\ Reported(students[s].id, c)

\* C12: every entry (s, c) of the unassigned list of a returned schedule
\* names a course of s's required list, and s is enrolled in no section of c
C12_UnassignedNotPlaced ==
    Returned => \A n \in 1..Len(unassigned) :
                    /\ unassigned[n].courseId \in Range(StudentOf(unassigned[n].studentId).requiredCourses)
                    /\ ~EnrolledInCourse(unassigned[n].studentId, unassigned[n].courseId)

Called(name) == name \in Range(calls)

\* the rolls of the sections are exactly the solver's assignments
EnrolmentsFromSolver ==
    \A i \in 1..Len(sections) : \A sid \in StudentIds :
        sid \in Range(sections[i].enrolledStudents) <=> sections[i].id \in Range(assignments[sid])

\* C13: with useILP enabled, the enrolments of the returned schedule are
\* taken from the solver result exactly when the solver status is Optimal or
\* Feasible; on any other status, or when the ILP path throws, the greedy
\* assignment runs instead; whenever the greedy assignment has run, the
\* metadata records algorithm 'greedy' and the fallback warning
C13_SolverResultOrFallback ==
    (Returned /\ engine = "cli" /\ useILP) =>
        /\ ilpStatus \in {"Optimal", "Feasible"} <=> Called("applyILPAssignments")
        /\ Called("applyILPAssignments") => (EnrolmentsFromSolver /\ ~Called("runGreedyAssignment"))
        /\ ilpStatus \notin {"Optimal", "Feasible"} => Called("runGreedyAssignment")
        /\ Called("runGreedyAssignment") =>
              (metadata.algorithm = "greedy" /\ FallbackWarning \in Range(metadata.warnings))

\* a schedule returned after the solver reported Infeasible: the greedy
\* assignment has enrolled a student and the metadata names the fallback
C13_Witness ==
    /\ Returned
    /\ useILP
    /\ ilpStatus = "Infeasible"
    /\ \E i \in 1..Len(sections) : sections[i].enrolledStudents # <<>>
    /\ metadata.algorithm = "greedy"

\* C14: within one call the percents delivered to the progress callback form
\* a non-decreasing sequence, on every path (ILP success, ILP failure or
\* exception followed by the greedy fallback, greedy forced)
C14_PercentsNonDecreasing ==
    \A i \in 1..(Len(events) - 1) : events[i].percent <= events[i + 1].percent

\* the phases that assign students to sections
AssignmentCalls == {"solveScheduleILP", "applyILPAssignments", "runGreedyAssignment"}

\* C16: in every run, whichever student-assignment path is taken, the
\* rebalancing pass runs after student assignment has finished and before
\* the schedule is returned
C16_RebalanceAlwaysRuns ==
    Returned => \E i \in 1..Len(calls) :
                    /\ calls[i] = "optimizeSections"
                    /\ \A j \in 1..Len(calls) : calls[j] \in AssignmentCalls => j < i

StoppedUnimproved ==
    /\ pc \in {"finalize", "done"}
    /\ Called("optimizeSections")
    /\ IterationLimit > 0
    /\ ~improved

Size(i) == Len(sections[i].enrolledStudents)

\* the sections of a course with the most and with the fewest students
MostEnrolled(secs) == {i \in secs : \A j \in secs : Size(j) <= Size(i)}

LeastEnrolled(secs) == {i \in secs : \A j \in secs : Size(i) <= Size(j)}

\* student sid can go from section `from` to section `to`: `to` has a seat
\* and none of its periods is a period of another section sid is enrolled in
CanMove(sid, from, to) ==
    /\ Size(to) < sections[to].capacity
    /\ \A i \in EnrolledIn(sid) \ {from} : ~SharePeriod(i, to)

\* C17 as stated: when the rebalancer stops because a full pass made no
\* improvement, then for every course with at least two sections either the
\* largest and smallest sizes differ by at most 1, or no student of any
\* most-enrolled section can be moved to any least-enrolled section
C17_BalancedOrNoMove ==
    StoppedUnimproved =>
        \A c \in 1..Len(sectionsByCourse) :
            LET secs == Range(sectionsByCourse[c])
            IN Cardinality(secs) >= 2 =>
                  \/ \A i, j \in secs : Size(i) - Size(j) <= 1
                  \/ \A l \in MostEnrolled(secs), sm \in LeastEnrolled(secs) :
                        \A sid \in Range(sections[l].enrolledStudents) : ~CanMove(sid, l, sm)

\* C17, amended: when the rebalancer stops because a full pass made no
\* improvement, then for every course with at least two sections either the
\* largest and smallest sizes differ by at most 1, or no student of the one
\* section the pass takes as largest (the last in its ascending order of
\* sizes) can be moved to the one section it takes as smallest (the first)
C17_BalancedOrNoMoveOfChosenPair ==
    StoppedUnimproved =>
        \A c \in 1..Len(sectionsByCourse) :
            LET list == sectionsByCourse[c]
                smallest == list[1]
                largest == list[Len(list)]
            IN Len(list) >= 2 =>
                  /\ largest \in MostEnrolled(Range(list))
                  /\ smallest \in LeastEnrolled(Range(list))
                  /\ \/ Size(largest) - Size(smallest) <= 1
                     \/ \A sid \in Range(sections[largest].enrolledStudents) :
                           ~CanMove(sid, largest, smallest)

\* the rebalancer has stopped after a pass without improvement, leaving a
\* course whose sizes differ by 2 or more: every student of the section
\* taken as largest is held back by a period or by the capacity
C17_Witness ==
    /\ Returned
    /\ StoppedUnimproved
    /\ \E c \in 1..Len(sectionsByCourse) :
          /\ Len(sectionsByCourse[c]) >= 2
          /\ Size(sectionsByCourse[c][Len(sectionsByCourse[c])]) - Size(sectionsByCourse[c][1]) >= 2
          /\ sections[sectionsByCourse[c][Len(sectionsByCourse[c])]].enrolledStudents # <<>>

\* the number of sections the time assigner has placed so far
NumPlaced == IF pc = "createSections" THEN 0 ELSE IF pc = "assignTimeSlots" THEN k - 1 ELSE Len(sections)

\* the slots at which section i meets
SlotsOf(i) == {p.slot : p \in sections[i].periods}

\* the sections placed before section i
Earlier(i) == 1..(i - 1)

\* when section i was placed, its teacher (if any) was free at slot s on
\* every day of the week: no unavailable period and no earlier section
TeacherFreeAt(i, s) ==
    \/ sections[i].teacherId = Absent
    \/ \A d \in Days :
          /\ [day |-> d, slot |-> s] \notin TeacherOf(sections[i].teacherId).unavailable
          /\ \A j \in Earlier(i) :
                sections[j].teacherId = sections[i].teacherId => [day |-> d, slot |-> s] \notin sections[j].periods

\* the restricted grades of the course of section i
RestrictedGrades(i) == GradesOf(SectionCourse(i))

\* when section i was placed, slot s held no earlier section of a course
\* sharing a restricted grade with the course of section i
GradeFreeAt(i, s) ==
    \A j \in Earlier(i) : s \in SlotsOf(j) => RestrictedGrades(j) \cap RestrictedGrades(i) = {}

\* C18 (web engine): when the time assigner places a section of a
\* grade-restricted course and some teacher-feasible slot holds no
\* earlier-placed section of a course sharing a restricted grade, the chosen
\* slot is such a slot
C18_GradeAwareSlot ==
    engine = "web" =>
        \A i \in 1..NumPlaced :
            (RestrictedGrades(i) # {} /\ \E s \in Slots : TeacherFreeAt(i, s) /\ GradeFreeAt(i, s))
                => \A s \in SlotsOf(i) : TeacherFreeAt(i, s) /\ GradeFreeAt(i, s)

\* a section of a grade-restricted course has been placed when one slot
\* free for its teacher held a course of the same grade and another did not,
\* and the slot that held the same grade held fewer sections
C18_Witness ==
    /\ engine = "web"
    /\ \E i \in 1..NumPlaced : \E s, t \in Slots :
          /\ RestrictedGrades(i) # {}
          /\ TeacherFreeAt(i, s) /\ GradeFreeAt(i, s)
          /\ TeacherFreeAt(i, t) /\ ~GradeFreeAt(i, t)
          /\ Cardinality({j \in Earlier(i) : t \in SlotsOf(j)}) <= Cardinality({j \in Earlier(i) : s \in SlotsOf(j)})
          /\ t < s

\* C19 (web engine): after time assignment every section's periods are
\* exactly one period per day d in [0, daysPerWeek), all at one slot s in
\* [0, periodsPerDay); with one day and one period per day every section has
\* the single period (0, 0)
C19_OneSlotEveryDay ==
    (engine = "web" /\ pc \notin {"createSections", "assignTimeSlots"}) =>
        \A i \in 1..Len(sections) :
            /\ \E s \in 0..(config.periodsPerDay - 1) :
                  sections[i].periods = {[day |-> d, slot |-> s] : d \in 0..(config.daysPerWeek - 1)}
            /\ (config.daysPerWeek = 1 /\ config.periodsPerDay = 1)
                  => sections[i].periods = {[day |-> 0, slot |-> 0]}

\* a returned schedule of a week of several days in which two sections meet
\* at different slots
C19_Witness ==
    /\ Returned
    /\ engine = "web"
    /\ config.daysPerWeek >= 2
    /\ \E i, j \in 1..Len(sections) : SlotsOf(i) # SlotsOf(j) /\ SlotsOf(i) # {} /\ SlotsOf(j) # {}

\* the penalty of slot s for section i, from the sections placed before it:
\* the sections at s, 1000 when one of them is of the same course, and 500
\* for each restricted grade of the course and each section at s whose
\* course restricts to that grade
PenaltyAt(i, s) ==
    LET at == {j \in Earlier(i) : s \in SlotsOf(j)}
    IN Cardinality(at)
       + (IF \E j \in at : sections[j].courseId = sections[i].courseId THEN 1000 ELSE 0)
       + 500 * SumOver([g \in RestrictedGrades(i) |-> Cardinality({j \in at : g \in RestrictedGrades(j)})],
                       RestrictedGrades(i))

\* C20 (web engine): for each section the time assigner chooses the slot of
\* minimum penalty among the slots at which the section's teacher is free on
\* every day of the week; ties go to the smallest slot index, and slot 0 is
\* chosen when no slot is feasible
C20_MinimumPenaltySlot ==
    engine = "web" =>
        \A i \in 1..NumPlaced :
            LET feasible == {s \in Slots : TeacherFreeAt(i, s)}
            IN IF feasible = {}
               THEN SlotsOf(i) = {0}
               ELSE \E s \in feasible :
                      /\ SlotsOf(i) = {s}
                      /\ \A t \in feasible :
                            \/ PenaltyAt(i, s) < PenaltyAt(i, t)
                            \/ PenaltyAt(i, s) = PenaltyAt(i, t) /\ s <= t

\* the time assigner has placed one section at the smaller of two feasible
\* slots of equal least penalty, one section away from a feasible slot of
\* smaller index and larger penalty, and one section at slot 0 for want of a
\* feasible slot
C20_Witness ==
    /\ engine = "web"
    /\ \E i \in 1..NumPlaced : \E s, t \in Slots :
          s < t /\ TeacherFreeAt(i, s) /\ TeacherFreeAt(i, t)
          /\ PenaltyAt(i, s) = PenaltyAt(i, t) /\ SlotsOf(i) = {s}
    /\ \E i \in 1..NumPlaced : \E s, t \in Slots :
          s < t /\ TeacherFreeAt(i, s) /\ TeacherFreeAt(i, t)
          /\ PenaltyAt(i, t) < PenaltyAt(i, s) /\ SlotsOf(i) = {t}
    /\ \E i \in 1..NumPlaced : \A s \in Slots : ~TeacherFreeAt(i, s)

\* the slots used by the sections of the same course placed before section i
SameCourseSlots(i) ==
    UNION {SlotsOf(j) : j \in {e \in Earlier(i) : sections[e].courseId = sections[i].courseId}}

\* C21 (web engine): when the time assigner places a section and some slot
\* free for its teacher is not used by an earlier section of the same course,
\* the chosen slot is not a slot of an earlier section of that course,
\* whatever other courses have been placed
C21_SameCourseSpread ==
    engine = "web" =>
        \A i \in 1..NumPlaced :
            (\E s \in Slots : TeacherFreeAt(i, s) /\ s \notin SameCourseSlots(i))
                => SlotsOf(i) \cap SameCourseSlots(i) = {}

\* the number of sections the room assigner has handled so far
NumRoomed ==
    IF pc \in {"createSections", "assignTimeSlots"} THEN 0
    ELSE IF pc = "assignRooms" THEN k - 1 ELSE Len(sections)

\* when section i was handled, room r was free at every period of the
\* section: not unavailable, and not taken by an earlier section
RoomFreeFor(r, i) ==
    \A p \in sections[i].periods :
        /\ p \notin rooms[r].unavailable
        /\ \A j \in Earlier(i) : sections[j].roomId = rooms[r].id => p \notin sections[j].periods

\* the rooms (by input position) that fit section i and were free for it
FittingRooms(i) ==
    {r \in 1..Len(rooms) :
        /\ rooms[r].capacity >= sections[i].capacity
        /\ SectionCourse(i).requiredFeatures \subseteq rooms[r].features
        /\ RoomFreeFor(r, i)}

\* C22: the room assigner gives a section the room of least capacity among
\* the rooms that have at least the section's capacity, every required
\* feature, and are free at every period of the section; among rooms of equal
\* capacity it takes the earliest in input order; the room stays absent
\* exactly when no such room exists
C22_SmallestFittingRoom ==
    \A i \in 1..NumRoomed :
        IF FittingRooms(i) = {}
        THEN sections[i].roomId = Absent
        ELSE \E r \in FittingRooms(i) :
                /\ sections[i].roomId = rooms[r].id
                /\ \A q \in FittingRooms(i) :
                      \/ rooms[r].capacity < rooms[q].capacity
                      \/ rooms[r].capacity = rooms[q].capacity /\ r <= q

\* the room assigner has given one section the second room of the input,
\* smaller than the first room that fitted too, and has left another section
\* that meets without a room
C22_Witness ==
    /\ \E i \in 1..NumRoomed : \E r, q \in FittingRooms(i) :
          /\ sections[i].roomId = rooms[r].id
          /\ q < r
          /\ rooms[r].capacity < rooms[q].capacity
    /\ \E i \in 1..NumRoomed :
          /\ sections[i].roomId = Absent
          /\ sections[i].periods # {}

\* C23 (ILP path): in the objective of the submitted model every
\* grade-eligible (student, section) pair whose course is in the student's
\* required list has coefficient 1000, whether or not the course is also in
\* the student's elective list and at whatever rank
C23_RequiredWeightIs1000 ==
    pc = "ilpSolved" =>
        \A v \in BinaryVars :
            (/\ ~GradeExcluded(SectionCourse(v[2]), students[v[1]].grade)
             /\ sections[v[2]].courseId \in Range(students[v[1]].requiredCourses))
                => ObjectiveWeight(v[1], v[2]) = RequiredWeight

\* student s is enrolled in section i of a course that is not in their
\* required list and stands at 0-based rank 10 or later in their elective list
WeightlessEnrolment(s, i) ==
    /\ students[s].id \in Range(sections[i].enrolledStudents)
    /\ sections[i].courseId \notin Range(students[s].requiredCourses)
    /\ IndexOf(students[s].electivePreferences, sections[i].courseId) >= ElectiveWeightBase

\* C24 (ILP path): after the solver's assignments are applied, no student is
\* enrolled in a section of a course that is not in their required list and
\* is ranked 10th or later (0-based rank >= 10) in their elective list, for
\* every solver result that satisfies the submitted model
C24_NoWeightlessEnrolment ==
    Called("applyILPAssignments") =>
        \A s \in 1..Len(students) : \A i \in 1..Len(sections) : ~WeightlessEnrolment(s, i)

\* the required course the required pass of the greedy assignment is at
CurrentRequired == students[si].requiredCourses[ci]

\* the course exists and its grade restriction leaves out the student's grade
NotAdmitted(s, c) ==
    /\ HasCourse(c)
    /\ CourseOf(c).hasGradeRestrictions
    /\ students[s].grade \notin CourseOf(c).gradeRestrictions

\* the enrolment lists of all sections
Rolls(secs) == [i \in 1..Len(secs) |-> secs[i].enrolledStudents]

Keeps(fields, before, after) ==
    /\ Len(after) = Len(before)
    /\ \A i \in 1..Len(before) : \A f \in fields : after[i][f] = before[i][f]

\* C26: room assignment leaves every section's teacher and periods
\* unchanged; student assignment (greedy or from the solver) and rebalancing
\* leave every section's id, course, teacher, room, periods and capacity
\* unchanged; the section list and its order are fixed once the sections are
\* created; rebalancing leaves the unassigned list unchanged
C26_LaterPhasesKeepEarlierFields ==
    [][/\ pc = "assignTimeSlots" => Keeps({"id", "courseId", "teacherId", "capacity"}, sections, sections')
       /\ pc = "assignRooms"
            => Keeps({"id", "courseId", "teacherId", "capacity", "periods"}, sections, sections')
       /\ pc \in {"greedyRequired", "greedyElective", "ilpSolved", "optimize", "finalize"}
            => Keeps({"id", "courseId", "teacherId", "capacity", "periods", "roomId"}, sections, sections')
       /\ pc = "optimize" => unassigned' = unassigned]_vars

\* a schedule returned after the solver was given up for the greedy
\* assignment: a section with a teacher, a room and periods holds students,
\* the rebalancer has moved a student, and a required course is reported
C26_Witness ==
    /\ Returned
    /\ Called("solveScheduleILP")
    /\ Called("optimizeSections")
    /\ iter >= 1
    /\ unassigned # <<>>
    /\ \E i \in 1..Len(sections) :
          /\ sections[i].teacherId # Absent
          /\ sections[i].roomId # Absent
          /\ sections[i].periods # {}
          /\ sections[i].enrolledStudents # <<>>

\* the sum of the squared enrolled sizes of all sections
SumOfSquares(secs) == SumOver([i \in 1..Len(secs) |-> Len(secs[i].enrolledStudents) * Len(secs[i].enrolledStudents)], 1..Len(secs))

\* the step from `before` to `after` takes a student of section l to
\* section t of the same course, which had at least 2 fewer students
TakesToSmaller(before, after, l, t) ==
    /\ l # t
    /\ before[l].courseId = before[t].courseId
    /\ Len(before[l].enrolledStudents) - Len(before[t].enrolledStudents) >= 2
    /\ Len(after[l].enrolledStudents) < Len(before[l].enrolledStudents)
    /\ Len(after[t].enrolledStudents) = Len(before[t].enrolledStudents) + 1
    /\ after[t].enrolledStudents[Len(after[t].enrolledStudents)] \in Range(before[l].enrolledStudents)
    /\ \A i \in 1..Len(before) : i \notin {l, t} => after[i].enrolledStudents = before[i].enrolledStudents

\* C27 (web engine): the rebalancer terminates. It makes at most
\* maxOptimizationIterations passes and stops at the first pass that commits
\* no move; every committed move takes a student from a section to a
\* section of the same course that had at least 2 fewer students, so the sum
\* of the squared section sizes strictly decreases with every move; a
\* rebalancer that has started stops
C27_RebalancerTerminates ==
    /\ [](pc = "optimize" => iter < IterationLimit)
    /\ [][pc = "optimize"
            => /\ Rolls(sections') # Rolls(sections)
                    => /\ \E l, t \in 1..Len(sections) : TakesToSmaller(sections, sections', l, t)
                       /\ SumOfSquares(sections') < SumOfSquares(sections)
                       /\ improved'
               /\ (cpos > Len(sectionsByCourse) /\ ~improved) => pc' = "finalize"
               /\ (cpos > Len(sectionsByCourse) /\ pc' = "optimize") => (iter' = iter + 1 /\ ~improved')
               /\ (cpos <= Len(sectionsByCourse) /\ Rolls(sections') = Rolls(sections))
                    => improved' = improved]_vars
    /\ (pc = "optimize") ~> (pc = "finalize")

\* the rebalancer has stopped below its pass limit, at a pass that moved
\* nobody, after an earlier pass that moved a student
C27_Witness ==
    /\ pc = "finalize"
    /\ Called("optimizeSections")
    /\ iter >= 1
    /\ ~improved
    /\ iter + 1 < IterationLimit

\* how many times student sid stands on the rolls of the sections of course c
TimesOnRolls(secs, sid, c) ==
    SumOver([i \in 1..Len(secs) |->
                IF secs[i].courseId = c
                THEN Cardinality({n \in 1..Len(secs[i].enrolledStudents) : secs[i].enrolledStudents[n] = sid})
                ELSE 0],
            1..Len(secs))

\* the total enrolment of course c
CourseEnrolment(secs, c) ==
    SumOver([i \in 1..Len(secs) |-> IF secs[i].courseId = c THEN Len(secs[i].enrolledStudents) ELSE 0],
            1..Len(secs))

\* C28: the rebalancer preserves course membership: after every step of it
\* each student is enrolled in the same courses, the same number of times
\* per course, as before, and the total enrolment of each course is unchanged
C28_RebalancePreservesMembership ==
    [][pc = "optimize"
        => \A c \in {courses[i].id : i \in 1..Len(courses)} :
              /\ CourseEnrolment(sections', c) = CourseEnrolment(sections, c)
              /\ \A sid \in StudentIds : TimesOnRolls(sections', sid, c) = TimesOnRolls(sections, sid, c)]_vars

\* C29: the students_assigned statistic of the final 'complete' progress
\* event lies between 0 and the number of input students, for every input,
\* including students with several unplaced required courses
C29_StudentsAssignedInRange ==
    Returned =>
        LET last == events[Len(events)]
        IN /\ last.phase = "complete"
           /\ 0 <= last.studentsAssigned
           /\ last.studentsAssigned <= Len(students)

\* the positions of the progress events with phase 'complete'
CompleteEvents == {n \in 1..Len(events) : events[n].phase = "complete"}

\* C30: on every path, the ILP path with its forwarded solver progress
\* included, a returned call has emitted exactly one progress event with
\* phase 'complete'; it carries percent 100 and is the last event
C30_OneCompleteEventLast ==
    Returned =>
        /\ CompleteEvents = {Len(events)}
        /\ events[Len(events)].percent = 100 * PercentScale

====
